---- MODULE Spec2Model ----
(***************************************************************************)
(* Spending Diary (src/app.py): a Streamlit script that keeps a diary of   *)
(* daily spending in spending_diary.csv and monthly budgets in             *)
(* monthly_budgets.json.  Every user interaction re-runs the whole script; *)
(* an action below is one such run.                                        *)
(***************************************************************************)
EXTENDS Integers, Sequences, FiniteSets, TLC

VARIABLES
    csv,            \* spending_diary.csv: the data rows, as written text cells
    budgets_json,   \* monthly_budgets.json: the object's members, in file order
    selected_date,  \* the sidebar's date input
    income,         \* the "Monthly income" widget's value
    allocations,    \* the per-category allocation widgets' values
    submitted,      \* whether this run was the daily form's submit
    mkey,           \* script variables as the run leaves them
    month_budget,
    weeks,
    num_weeks,
    weekly_budget,
    df,
    ws,
    we,
    ms,
    me,
    week_totals,
    month_totals,
    last_saved,     \* history: per date, the row of the latest "Save day"
    last_budget,    \* history: per month key, the record of the latest "Save monthly setup"
    n_saves,        \* history: how many saves the run has seen (bounded)
    wpc,            \* two sessions inside save_spend_row: position of each
    wrow,           \*   the row each is saving
    wdf,            \*   the frame each has loaded
    race_log        \*   history: their loads and stores, in order

fileVars == <<csv, budgets_json>>
widgetVars == <<selected_date, income, allocations, submitted>>
runVars == <<mkey, month_budget, weeks, num_weeks, weekly_budget, df,
             ws, we, ms, me, week_totals, month_totals>>
histVars == <<last_saved, last_budget, n_saves>>
raceVars == <<wpc, wrow, wdf, race_log>>
vars == <<fileVars, widgetVars, runVars, histVars, raceVars>>

-----------------------------------------------------------------------------
(* Bounds of the model *)

\* the calendar years the date inputs are drawn from: 2021 .. 2021 + YearSpan
YearSpan == 3
\* how many "Save day" / "Save monthly setup" clicks a behaviour holds
MaxSaves == 2

-----------------------------------------------------------------------------
(* Config *)

CATEGORIES ==
    <<"groceries", "coffee", "transport", "pilates",
      "miscellaneous", "stocks", "savings", "rent">>

CategorySet == {CATEGORIES[i] : i \in DOMAIN CATEGORIES}

-----------------------------------------------------------------------------
(* Dates: datetime.date as a record, with the proleptic Gregorian ordinal *)

Date(y, m, d) == [year |-> y, month |-> m, day |-> d]

IsLeap(y) == (y % 4 = 0) /\ ((y % 100 # 0) \/ (y % 400 = 0))

\* calendar.monthrange(y, m)[1]
DaysInMonth(y, m) ==
    IF m = 2 THEN (IF IsLeap(y) THEN 29 ELSE 28)
    ELSE IF m \in {4, 6, 9, 11} THEN 30 ELSE 31

\* days before the first of each month in a common year
DAYS_BEFORE_MONTH == <<0, 31, 59, 90, 120, 151, 181, 212, 243, 273, 304, 334>>

DaysBeforeMonth(y, m) == DAYS_BEFORE_MONTH[m] + (IF m > 2 /\ IsLeap(y) THEN 1 ELSE 0)

DaysBeforeYear(y) ==
    LET p == y - 1 IN p * 365 + (p \div 4) - (p \div 100) + (p \div 400)

toordinal(d) == DaysBeforeYear(d.year) + DaysBeforeMonth(d.year, d.month) + d.day

Years == 2021 .. (2021 + YearSpan)

\* the ordinals date arithmetic can reach from a date of Years: one year either side
Ordinals == (DaysBeforeYear(2020) + 1) .. DaysBeforeYear(2023 + YearSpan)

DateOfOrdinal ==
    [n \in Ordinals |->
        LET y == CHOOSE yy \in (2020 .. (2022 + YearSpan)) :
                     DaysBeforeYear(yy) < n /\ n <= DaysBeforeYear(yy + 1)
            r == n - DaysBeforeYear(y)
            m == CHOOSE mm \in 1..12 :
                     DaysBeforeMonth(y, mm) < r
                     /\ r <= DaysBeforeMonth(y, mm) + DaysInMonth(y, mm)
        IN Date(y, m, r - DaysBeforeMonth(y, m))]

fromordinal(n) == DateOfOrdinal[n]

\* date.weekday(): Monday is 0
weekday(d) == (toordinal(d) + 6) % 7

\* d - Timedelta(days=n), d + Timedelta(days=n)
SubDays(d, n) == fromordinal(toordinal(d) - n)
AddDays(d, n) == fromordinal(toordinal(d) + n)

\* date comparison: by (year, month, day)
DateLT(a, b) ==
    \/ a.year < b.year
    \/ a.year = b.year /\ a.month < b.month
    \/ a.year = b.year /\ a.month = b.month /\ a.day < b.day

DateLE(a, b) == a = b \/ DateLT(a, b)

-----------------------------------------------------------------------------
(* Helpers *)

Pad2(n) == IF n < 10 THEN "0" \o ToString(n) ELSE ToString(n)

month_key(d) == ToString(d.year) \o "-" \o Pad2(d.month)

get_month_bounds(d) ==
    LET last_day == DaysInMonth(d.year, d.month)
    IN <<Date(d.year, d.month, 1), Date(d.year, d.month, last_day)>>

\* variant: the week taken to start on Sunday
week_start_sunday(d) == SubDays(d, weekday(d) + 1)

week_start(d) == SubDays(d, weekday(d))

week_end(d) == AddDays(week_start(d), 6)

\* variant: the loop stops when the next Monday passes the end
RECURSIVE WeeksLoopShort(_, _, _)
WeeksLoopShort(cur, end, acc) ==
    IF DateLE(AddDays(cur, 7), end)
    THEN WeeksLoopShort(AddDays(cur, 7), end, Append(acc, <<cur, AddDays(cur, 6)>>))
    ELSE acc

RECURSIVE WeeksLoop(_, _, _)
WeeksLoop(cur, end, acc) ==
    IF DateLE(cur, end)
    THEN WeeksLoop(AddDays(cur, 7), end, Append(acc, <<cur, AddDays(cur, 6)>>))
    ELSE acc

\* variant: the windows start on the first of the month
weeks_from_month_start(d) ==
    LET b == get_month_bounds(d)
    IN WeeksLoop(b[1], week_end(b[2]), <<>>)

weeks_in_month(d) ==
    LET b == get_month_bounds(d)
    IN WeeksLoop(week_start(b[1]), week_end(b[2]), <<>>)

-----------------------------------------------------------------------------
(* The values the widgets are given *)

ZeroSpend == [c \in CategorySet |-> 0]

SpendInputs ==
    { ZeroSpend,
      [ZeroSpend EXCEPT !["groceries"] = 50, !["coffee"] = 5],
      [ZeroSpend EXCEPT !["groceries"] = 30] }

NotesInputs == {"", "lunch", "N/A"}

DiaryDates ==
    {Date(2024, 1, 31), Date(2024, 2, 10), Date(2024, 2, 11), Date(2024, 2, 12)}

AllocInputs ==
    { ZeroSpend,
      [ZeroSpend EXCEPT !["groceries"] = 400, !["coffee"] = 40],
      [ZeroSpend EXCEPT !["groceries"] = 40, !["rent"] = 400] }

IncomeInputs == {0, 1000}

\* months of 4, 5 and 6 calendar weeks
BudgetDates == {Date(2021, 2, 14), Date(2024, 2, 11), Date(2024, 9, 15)}

AllDates ==
    {Date(y, m, d) : y \in Years, m \in 1..12, d \in 1..31} \
        {dt \in {Date(y, m, d) : y \in Years, m \in 1..12, d \in 29..31} :
            dt.day > DaysInMonth(dt.year, dt.month)}

\* the numbers that occur as text in the two files
Numbers == {0, 5, 7, 30, 40, 50, 400, 1000}

-----------------------------------------------------------------------------
(* Text of the files: what to_csv / json.dumps write and read_csv / json.loads read *)

\* str(date): YYYY-MM-DD
IsoFormat(d) == ToString(d.year) \o "-" \o Pad2(d.month) \o "-" \o Pad2(d.day)

\* repr of a float with an integral value, and of an int
FloatTextOf == [n \in Numbers |-> ToString(n) \o ".0"]
IntTextOf == [n \in Numbers |-> ToString(n)]

FloatText(n) == FloatTextOf[n]
IntText(n) == IntTextOf[n]

IntTexts == {IntText(n) : n \in Numbers}
FloatTexts == {FloatText(n) : n \in Numbers}
NumericTexts == IntTexts \cup FloatTexts

NumberOfText == [s \in NumericTexts |-> CHOOSE n \in Numbers : s \in {IntText(n), FloatText(n)}]

StoredDates == DiaryDates \cup BudgetDates

IsoTextOf == [d \in StoredDates |-> IsoFormat(d)]

IsoText(d) == IsoTextOf[d]

\* pd.to_datetime(...).dt.date on the texts str(date) writes
DateOfText ==
    [s \in {IsoText(d) : d \in StoredDates} |-> CHOOSE d \in StoredDates : IsoText(d) = s]

\* read_csv's default na_values
NA_VALUES ==
    {"", "#N/A", "#N/A N/A", "#NA", "-1.#IND", "-1.#QNAN", "-NaN", "-nan",
     "1.#IND", "1.#QNAN", "<NA>", "N/A", "NA", "NULL", "NaN", "None", "n/a",
     "nan", "null"}

\* a value of the frame's notes column
NaN == [kind |-> "nan", s |-> "", n |-> 0]
StrVal(s) == [kind |-> "str", s |-> s, n |-> 0]
IntVal(n) == [kind |-> "int", s |-> "", n |-> n]
FloatVal(n) == [kind |-> "float", s |-> "", n |-> n]

\* read_csv's type inference of the notes column, over the whole column
ReadNotesColumn(cells) ==
    LET allInt == \A i \in DOMAIN cells : cells[i] \in IntTexts
        allNum == \A i \in DOMAIN cells : cells[i] \in NA_VALUES \cup NumericTexts
    IN [i \in DOMAIN cells |->
           IF allInt THEN IntVal(NumberOfText[cells[i]])
           ELSE IF cells[i] \in NA_VALUES THEN NaN
           ELSE IF allNum THEN FloatVal(NumberOfText[cells[i]])
           ELSE StrVal(cells[i])]

\* pd.to_numeric(errors="coerce").fillna(0.0) on a spend cell
ReadSpend(cell) == IF cell \in NumericTexts THEN NumberOfText[cell] ELSE 0

\* to_csv of a notes value (na_rep is the empty text)
NotesText(v) ==
    CASE v.kind = "nan" -> ""
      [] v.kind = "str" -> v.s
      [] v.kind = "int" -> IntText(v.n)
      [] v.kind = "float" -> FloatText(v.n)

RECURSIVE SortByDate(_)
SortByDate(rows) ==
    IF Len(rows) <= 1 THEN rows
    ELSE LET rest == SortByDate(Tail(rows))
             r == Head(rows)
             k == Cardinality({i \in DOMAIN rest : DateLT(rest[i].date, r.date)})
         IN SubSeq(rest, 1, k) \o <<r>> \o SubSeq(rest, k + 1, Len(rest))

\* (the file always has its notes column: ensure_files writes the header)
load_spend_df(file) ==
    IF Len(file) = 0 THEN <<>>
    ELSE LET notes == ReadNotesColumn([i \in DOMAIN file |-> file[i].notes])
         IN SortByDate([i \in DOMAIN file |->
                [date |-> DateOfText[file[i].date],
                 notes |-> notes[i],
                 spend |-> [c \in CategorySet |-> ReadSpend(file[i].spend[c])]]])

to_csv(frame) ==
    [i \in DOMAIN frame |->
        [date |-> IsoText(frame[i].date),
         notes |-> NotesText(frame[i].notes),
         spend |-> [c \in CategorySet |-> FloatText(frame[i].spend[c])]]]

\* the row the daily form builds
FormRow(d, notes, spends) == [date |-> d, notes |-> StrVal(notes), spend |-> spends]

\* variant: the date's old rows are not dropped
UpsertKeepAll(frame, row) == SortByDate(frame \o <<row>>)

\* save_spend_row after its load: drop the date's rows, append, sort
Upsert(frame, row) ==
    LET kept == IF Len(frame) > 0 /\ \E i \in DOMAIN frame : frame[i].date = row.date
                THEN SelectSeq(frame, LAMBDA r : r.date # row.date)
                ELSE frame
    IN SortByDate(kept \o <<row>>)

save_spend_row(row, file) == to_csv(Upsert(load_spend_df(file), row))

\* variant: the range's last day left out
filter_df_end_exclusive(frame, start_d, end_d) ==
    IF Len(frame) = 0 THEN frame
    ELSE SelectSeq(frame, LAMBDA r : DateLE(start_d, r.date) /\ DateLT(r.date, end_d))

filter_df_by_range(frame, start_d, end_d) ==
    IF Len(frame) = 0 THEN frame
    ELSE SelectSeq(frame, LAMBDA r : DateLE(start_d, r.date) /\ DateLE(r.date, end_d))

RECURSIVE ColumnSum(_, _)
ColumnSum(frame, c) ==
    IF Len(frame) = 0 THEN 0 ELSE Head(frame).spend[c] + ColumnSum(Tail(frame), c)

totals_by_category(frame) ==
    [c \in CategorySet |-> IF Len(frame) > 0 THEN ColumnSum(frame, c) ELSE 0]

-----------------------------------------------------------------------------
(* monthly_budgets.json: a dict keeps its items in insertion order *)

DictGet(items, k, default) ==
    IF \E i \in DOMAIN items : items[i].key = k
    THEN items[CHOOSE i \in DOMAIN items : items[i].key = k].value
    ELSE default

DictSet(items, k, v) ==
    IF \E i \in DOMAIN items : items[i].key = k
    THEN [i \in DOMAIN items |-> IF items[i].key = k THEN [key |-> k, value |-> v] ELSE items[i]]
    ELSE Append(items, [key |-> k, value |-> v])

load_budgets(file) ==
    [i \in DOMAIN file |->
        [key |-> file[i].key,
         value |-> [income |-> NumberOfText[file[i].value.income],
                    allocations |-> [c \in CategorySet |->
                                        NumberOfText[file[i].value.allocations[c]]]]]]

save_budgets(budgets) ==
    [i \in DOMAIN budgets |->
        [key |-> budgets[i].key,
         value |-> [income |-> FloatText(budgets[i].value.income),
                    allocations |-> [c \in CategorySet |->
                                        FloatText(budgets[i].value.allocations[c])]]]]

DefaultBudget == [income |-> 0, allocations |-> [c \in CategorySet |-> 0]]

\* budgets.get(mkey, {"income": 0.0, "allocations": {...}})
BudgetGet(budgets, k) == DictGet(budgets, k, DefaultBudget)

RECURSIVE GCD(_, _)
GCD(a, b) == IF b = 0 THEN a ELSE GCD(b, a % b)

\* a / n as an exact fraction in lowest terms
Ratio(a, n) == LET g == GCD(a, n) IN [num |-> a \div g, den |-> n \div g]

\* variant: every month taken to have 4 weeks
WeeklyBudgetFixed4(alloc, nw) ==
    [c \in CategorySet |-> Ratio(alloc[c], 4)]

\* {c: (allocations[c] / num_weeks if num_weeks else 0.0) for c in CATEGORIES}
WeeklyBudget(alloc, nw) ==
    [c \in CategorySet |-> IF nw # 0 THEN Ratio(alloc[c], nw) ELSE [num |-> 0, den |-> 1]]

-----------------------------------------------------------------------------
(* One run of the script, top to bottom *)

\* The script's variables at the end of a run on date sd: bfile is the budget
\* file the run loaded, file the diary file after the run's save, if any.
Script(file, bfile, sd, alloc, mk, mb, wk, nw, wb, frame, s1, e1, s2, e2, wt, mt) ==
    /\ mk = month_key(sd)
    /\ mb = BudgetGet(load_budgets(bfile), month_key(sd))
    /\ wk = weeks_in_month(sd)
    /\ nw = Len(wk)
    /\ wb = WeeklyBudget(alloc, nw)
    /\ frame = load_spend_df(file)
    /\ s1 = week_start(sd)
    /\ e1 = week_end(sd)
    /\ s2 = get_month_bounds(sd)[1]
    /\ e2 = get_month_bounds(sd)[2]
    /\ wt = totals_by_category(filter_df_by_range(frame, s1, e1))
    /\ mt = totals_by_category(filter_df_by_range(frame, s2, e2))

Rendered ==
    Script(csv', budgets_json, selected_date', allocations',
           mkey', month_budget', weeks', num_weeks', weekly_budget', df',
           ws', we', ms', me', week_totals', month_totals')

Writers == {1, 2}

\* the sessions are idle: no row is being saved
NoRow == FormRow(Date(2024, 2, 10), "", ZeroSpend)

RaceIdle ==
    /\ wpc = [w \in Writers |-> "idle"]
    /\ wrow = [w \in Writers |-> NoRow]
    /\ wdf = [w \in Writers |-> <<>>]
    /\ race_log = <<>>

\* ensure_files, then the first run, on today's date
FirstRun(today, file) ==
    /\ csv = file
    /\ budgets_json = <<>>
    /\ selected_date = today
    /\ income = 0
    /\ allocations = DefaultBudget.allocations
    /\ submitted = FALSE
    /\ Script(csv, budgets_json, selected_date, allocations,
              mkey, month_budget, weeks, num_weeks, weekly_budget, df,
              ws, we, ms, me, week_totals, month_totals)
    /\ last_saved = <<>>
    /\ last_budget = <<>>
    /\ n_saves = 0

\* the user picks another date in the sidebar
SelectDate(d) ==
    LET stored == BudgetGet(load_budgets(budgets_json), month_key(d))
    IN /\ d # selected_date
       /\ selected_date' = d
       \* the allocation widgets are keyed by month: a new month starts from the stored record
       /\ allocations' = IF month_key(d) = mkey THEN allocations ELSE stored.allocations
       \* the income widget has no key: it restarts when its default changes
       /\ income' = IF stored.income = month_budget.income THEN income ELSE stored.income
       /\ submitted' = FALSE
       /\ UNCHANGED <<fileVars, histVars, raceVars>>
       /\ Rendered

\* the user changes the income and allocation widgets
EditSetup(inc, alloc) ==
    /\ <<inc, alloc>> # <<income, allocations>>
    /\ income' = inc
    /\ allocations' = alloc
    /\ submitted' = FALSE
    /\ UNCHANGED <<selected_date, fileVars, histVars, raceVars>>
    /\ Rendered

\* variant: only the saved month is written to the file
SaveMonthlySetupOnlyKey ==
    LET record == [income |-> income, allocations |-> allocations]
    IN /\ n_saves < MaxSaves
       /\ n_saves' = n_saves + 1
       /\ budgets_json' = save_budgets(<<[key |-> mkey, value |-> record]>>)
       /\ last_budget' = (mkey :> record) @@ last_budget
       /\ submitted' = FALSE
       /\ UNCHANGED <<csv, selected_date, income, allocations, last_saved, raceVars>>
       /\ Rendered

\* "Save monthly setup"
SaveMonthlySetup ==
    LET record == [income |-> income, allocations |-> allocations]
        budgets == load_budgets(budgets_json)
    IN /\ n_saves < MaxSaves
       /\ n_saves' = n_saves + 1
       /\ budgets_json' = save_budgets(DictSet(budgets, mkey, record))
       /\ last_budget' = (mkey :> record) @@ last_budget
       /\ submitted' = FALSE
       /\ UNCHANGED <<csv, selected_date, income, allocations, last_saved, raceVars>>
       /\ Rendered

\* "Save day": the daily form is submitted with these notes and spends
SaveDay(notes, spends) ==
    LET row == FormRow(selected_date, notes, spends)
    IN /\ n_saves < MaxSaves
       /\ csv' = save_spend_row(row, csv)
       /\ submitted' = TRUE
       /\ last_saved' = (selected_date :> row) @@ last_saved
       /\ n_saves' = n_saves + 1
       /\ UNCHANGED <<budgets_json, selected_date, income, allocations, last_budget, raceVars>>
       /\ Rendered

-----------------------------------------------------------------------------
(* The diary: dates are picked and days are saved *)

Init == \E today \in DiaryDates : FirstRun(today, <<>>) /\ RaceIdle

Next ==
    \/ \E d \in DiaryDates : SelectDate(d)
    \/ \E notes \in NotesInputs, spends \in SpendInputs : SaveDay(notes, spends)

Spec == Init /\ [][Next]_vars

(* The monthly setup: dates are picked, the setup is edited and saved *)

InitBudget == \E today \in BudgetDates : FirstRun(today, <<>>) /\ RaceIdle

NextBudget ==
    \/ \E d \in BudgetDates : SelectDate(d)
    \/ \E inc \in IncomeInputs, alloc \in AllocInputs : EditSetup(inc, alloc)
    \/ SaveMonthlySetup

SpecBudget == InitBudget /\ [][NextBudget]_vars

(* The date arithmetic: the script runs on any date of the years modelled *)

InitDate == \E today \in AllDates : FirstRun(today, <<>>) /\ RaceIdle

NextDay ==
    /\ AddDays(selected_date, 1) \in AllDates
    /\ SelectDate(AddDays(selected_date, 1))

SpecDate == InitDate /\ [][NextDay]_vars

(* Two sessions save a day at the same time: save_spend_row is a load, then a
   whole-file write, with nothing between them held *)

RaceDates == {Date(2024, 2, 10), Date(2024, 2, 12)}

RaceRows ==
    {FormRow(d, notes, spends) :
        d \in RaceDates, notes \in NotesInputs \cup {"7"}, spends \in SpendInputs \ {ZeroSpend}}

RaceFiles ==
    { <<>>,
      save_spend_row(FormRow(Date(2024, 2, 11), "lunch", ZeroSpend), <<>>),
      save_spend_row(FormRow(Date(2024, 2, 10), "7", ZeroSpend), <<>>) }

InitRace ==
    /\ \E file \in RaceFiles : FirstRun(Date(2024, 2, 11), file)
    /\ wpc = [w \in Writers |-> "start"]
    /\ wrow \in [Writers -> RaceRows]
    /\ wdf = [w \in Writers |-> <<>>]
    /\ race_log = <<>>

\* df = load_spend_df()
WriterLoad(w) ==
    /\ wpc[w] = "start"
    /\ wdf' = [wdf EXCEPT ![w] = load_spend_df(csv)]
    /\ wpc' = [wpc EXCEPT ![w] = "loaded"]
    /\ race_log' = Append(race_log, <<"load", w>>)
    /\ UNCHANGED <<fileVars, widgetVars, runVars, histVars, wrow>>

\* the rest of save_spend_row, ending in df.to_csv
WriterStore(w) ==
    /\ wpc[w] = "loaded"
    /\ csv' = to_csv(Upsert(wdf[w], wrow[w]))
    /\ wpc' = [wpc EXCEPT ![w] = "done"]
    /\ race_log' = Append(race_log, <<"store", w>>)
    /\ UNCHANGED <<budgets_json, widgetVars, runVars, histVars, wrow, wdf>>

NextRace ==
    \/ \E w \in Writers : WriterLoad(w)
    \/ \E w \in Writers : WriterStore(w)

SpecRace == InitRace /\ [][NextRace]_vars

-----------------------------------------------------------------------------
(* Properties *)

\* the text row to_csv writes for a row of the daily form
CsvRowOf(row) == to_csv(<<row>>)[1]

\* the lines of the diary file that carry date d
RowsOn(d) == {i \in DOMAIN csv : csv[i].date = IsoFormat(d)}

\* C1: after any sequence of "Save day" from an empty diary, the file holds at
\* most one row per date, and the row of a date is exactly the row of the
\* latest save for that date.
C1_LatestUpsertStored ==
    \A d \in DiaryDates :
        /\ Cardinality(RowsOn(d)) <= 1
        /\ IF d \in DOMAIN last_saved
           THEN \E i \in RowsOn(d) : csv[i] = CsvRowOf(last_saved[d])
           ELSE RowsOn(d) = {}

\* C2: right after a day is saved, the reloaded frame filtered to that date is
\* exactly one row, equal by value to the saved row in date, notes and spends.
C2_SaveThenLoadRoundTrip ==
    submitted =>
        LET hits == SelectSeq(df, LAMBDA r : r.date = selected_date)
        IN Len(hits) = 1 /\ hits[1] = last_saved[selected_date]

RECURSIVE SpendOver(_, _)
SpendOver(S, c) ==
    IF S = {} THEN 0
    ELSE LET i == CHOOSE j \in S : TRUE
         IN NumberOfText[csv[i].spend[c]] + SpendOver(S \ {i}, c)

\* the Monday-to-Sunday week of the selected date and its month, by ordinal
InSelectedWeek(d) ==
    LET o == toordinal(selected_date)
        monday == o - ((o - 1) % 7)
    IN monday <= toordinal(d) /\ toordinal(d) <= monday + 6

InSelectedMonth(d) == d.year = selected_date.year /\ d.month = selected_date.month

ScenarioDiary ==
    /\ Len(csv) = 2
    /\ csv[1].date = "2024-02-10" /\ csv[1].spend["groceries"] = "50.0"
    /\ csv[2].date = "2024-02-12" /\ csv[2].spend["groceries"] = "30.0"
    /\ selected_date = Date(2024, 2, 11)

\* C6: for every category the summary's week total is the sum of that
\* category's spend over exactly the diary rows dated in the selected date's
\* Monday..Sunday week, and its month total the sum over exactly the rows dated
\* in the selected date's month (0 when there is none); rows on 2024-02-10
\* (groceries 50) and 2024-02-12 (groceries 30) seen from 2024-02-11 give 50
\* and 80.
C6_TotalsOverWeekAndMonth ==
    /\ \A c \in CategorySet :
        /\ week_totals[c] =
              SpendOver({i \in DOMAIN csv : InSelectedWeek(DateOfText[csv[i].date])}, c)
        /\ month_totals[c] =
              SpendOver({i \in DOMAIN csv : InSelectedMonth(DateOfText[csv[i].date])}, c)
    /\ ScenarioDiary =>
          week_totals["groceries"] = 50 /\ month_totals["groceries"] = 80

C6_Witness ==
    /\ ScenarioDiary
    /\ week_totals["groceries"] = 50
    /\ month_totals["groceries"] = 80

\* first and last day of the selected date's month, as ordinals
MonthFirstOrdinal == toordinal(Date(selected_date.year, selected_date.month, 1))

MonthLastOrdinal ==
    IF selected_date.month = 12
    THEN toordinal(Date(selected_date.year + 1, 1, 1)) - 1
    ELSE toordinal(Date(selected_date.year, selected_date.month + 1, 1)) - 1

\* C3: weeks_in_month is an ordered sequence of 7-day windows, each starting
\* exactly 7 days after the one before, the first starting on or before the
\* first of the month, the last ending on or after the last of the month, and
\* there are 4, 5 or 6 of them.
C3_WeeksCoverMonthInSteps ==
    /\ Len(weeks) \in {4, 5, 6}
    /\ \A i \in DOMAIN weeks : toordinal(weeks[i][2]) = toordinal(weeks[i][1]) + 6
    /\ \A i \in 1 .. (Len(weeks) - 1) :
          toordinal(weeks[i + 1][1]) = toordinal(weeks[i][1]) + 7
    /\ toordinal(weeks[1][1]) <= MonthFirstOrdinal
    /\ toordinal(weeks[Len(weeks)][2]) >= MonthLastOrdinal

C3_Witness ==
    /\ selected_date.year = 2021 /\ selected_date.month = 2
    /\ Len(weeks) = 4
    /\ weeks[1][1] = Date(2021, 2, 1)

\* C4: weeks_in_month is exactly the Monday-to-Sunday weeks that overlap the
\* month: every window starts on a Monday and shares a day with the month, every
\* day of the month lies in a window, and no week is listed twice; for a date
\* in 2024-02 it is 5 weeks, from Monday 2024-01-29 to Sunday 2024-03-03.
C4_ExactlyTheOverlappingWeeks ==
    /\ \A i \in DOMAIN weeks :
          /\ weekday(weeks[i][1]) = 0
          /\ toordinal(weeks[i][1]) % 7 = 1
          /\ toordinal(weeks[i][1]) <= MonthLastOrdinal
          /\ toordinal(weeks[i][2]) >= MonthFirstOrdinal
    /\ \A x \in MonthFirstOrdinal .. MonthLastOrdinal :
          \E i \in DOMAIN weeks :
              toordinal(weeks[i][1]) <= x /\ x <= toordinal(weeks[i][2])
    /\ Len(weeks) = Cardinality({x - ((x - 1) % 7) : x \in MonthFirstOrdinal .. MonthLastOrdinal})
    /\ (selected_date.year = 2024 /\ selected_date.month = 2) =>
          /\ Len(weeks) = 5
          /\ weeks[1][1] = Date(2024, 1, 29)
          /\ weeks[5][2] = Date(2024, 3, 3)

C4_Witness ==
    /\ selected_date = Date(2024, 2, 29)
    /\ Len(weeks) = 5
    /\ weeks[1] = <<Date(2024, 1, 29), Date(2024, 2, 4)>>
    /\ weeks[5] = <<Date(2024, 2, 26), Date(2024, 3, 3)>>

\* C5: week_start of the selected date is a Monday and week_end is week_start
\* plus 6 days.
C5_WeekStartIsMonday ==
    /\ weekday(ws) = 0
    /\ toordinal(ws) % 7 = 1
    /\ toordinal(we) = toordinal(ws) + 6

C5_Witness ==
    /\ selected_date = Date(2024, 2, 11)
    /\ ws = Date(2024, 2, 5)
    /\ we = Date(2024, 2, 11)

\* C7: the weekly budget of every category is its allocation divided by the
\* number of weeks weeks_in_month gives for the selected date (400 and 40 over
\* 5 weeks are 80 and 8); over 0 weeks it is 0 for every category.
C7_WeeklyBudgetIsAllocationOverWeeks ==
    /\ num_weeks = Len(weeks_in_month(selected_date))
    /\ \A c \in CategorySet :
          /\ weekly_budget[c].den > 0
          /\ weekly_budget[c].num * num_weeks = allocations[c] * weekly_budget[c].den
    /\ (allocations["groceries"] = 400 /\ allocations["coffee"] = 40 /\ num_weeks = 5) =>
          /\ weekly_budget["groceries"] = [num |-> 80, den |-> 1]
          /\ weekly_budget["coffee"] = [num |-> 8, den |-> 1]
    /\ \A c \in CategorySet : WeeklyBudget(allocations, 0)[c] = [num |-> 0, den |-> 1]

C7_Witness ==
    /\ allocations["groceries"] = 400
    /\ allocations["coffee"] = 40
    /\ num_weeks = 5
    /\ weekly_budget["groceries"] = [num |-> 80, den |-> 1]
    /\ weekly_budget["coffee"] = [num |-> 8, den |-> 1]

BudgetKeys == {month_key(d) : d \in BudgetDates}

\* C8: after any sequence of "Save monthly setup", the budget read back for a
\* month key is the record of the latest save for that key, whatever was saved
\* for other keys, and the zero record (income 0, every allocation 0) for a key
\* never saved.
C8_BudgetGetLatestOrDefault ==
    \A k \in BudgetKeys :
        BudgetGet(load_budgets(budgets_json), k) =
            IF k \in DOMAIN last_budget
            THEN last_budget[k]
            ELSE [income |-> 0, allocations |-> [c \in CategorySet |-> 0]]

C8_Witness ==
    /\ Len(budgets_json) = 2
    /\ mkey \notin DOMAIN last_budget
    /\ \E k \in DOMAIN last_budget : last_budget[k].income = 1000
    /\ month_budget = DefaultBudget

AllDone == \A w \in Writers : wpc[w] = "done"

LastStorer == race_log[Len(race_log)][2]

\* C9: when two sessions save the same date at once, whatever the order of
\* their loads and stores, the file ends with exactly one row for that date,
\* the row of the session that stored last.
C9_SameDateLastStoreWins ==
    (AllDone /\ wrow[1].date = wrow[2].date) =>
        /\ Cardinality(RowsOn(wrow[1].date)) = 1
        /\ \A i \in RowsOn(wrow[1].date) : csv[i] = CsvRowOf(wrow[LastStorer])

C9_Witness ==
    /\ AllDone
    /\ wrow[1].date = wrow[2].date
    /\ wrow[1] # wrow[2]
    /\ race_log = <<(<<"load", 1>>), (<<"load", 2>>), (<<"store", 2>>), (<<"store", 1>>)>>
    /\ \E i \in DOMAIN csv : csv[i] = CsvRowOf(wrow[1])

\* the diary file holds a row with this row's date and spends
StoredFor(row) ==
    \E i \in RowsOn(row.date) : csv[i].spend = CsvRowOf(row).spend

\* C10: saving one date never removes the stored row of another date: after two
\* sessions have saved different dates, in sequence or interleaved, the file
\* holds a row for each of the two dates, with the spends saved for it.
C10_OtherDateKept ==
    (AllDone /\ wrow[1].date # wrow[2].date) =>
        \A w \in Writers : StoredFor(wrow[w])

====
